---- MODULE Spec2Model ----
(***************************************************************************)
(* Scheduled-post lifecycle of local.py: the scheduled_posts table, the    *)
(* APScheduler job store, the publish callback schedule_instagram_post,    *)
(* and the Streamlit handlers that schedule, edit, delete and reconcile.   *)
(*                                                                         *)
(* Granularity.  A Streamlit handler (login, schedule form, edit form,     *)
(* delete button) is one action.  A job fired by the BackgroundScheduler   *)
(* runs schedule_instagram_post on a worker thread, so that call is split  *)
(* at its three externally visible effects: the Instagram upload, the      *)
(* metric transaction and the delete transaction.                          *)
(*                                                                         *)
(* Also download_image of local.py, and of monetize.py the status, feeds   *)
(* and posts files: feed handlers are one action each; a schedule call and *)
(* a pass of process_scheduled_posts are split at the read of the posts    *)
(* file, the emptying open for writing and the write, since the Streamlit  *)
(* threads and the daemon thread share the file without a lock.            *)
(***************************************************************************)
EXTENDS Integers, Sequences, FiniteSets, TLC

\* ------------------------------------------------------------------ bounds
MaxTime == 2      \* the clock runs over 0..MaxTime (abstract seconds)
MaxPosts == 2     \* distinct post ids ever created
SentCap == 2      \* the per-id success counter saturates here
Horizon == 1      \* a form offers due times up to now + Horizon
FailCap == 2      \* the per-id failure counter saturates here
MaxFile == 4      \* a schedule call appends to a list shorter than this

Users == {"u1", "u2"}
Sessions == {"s1"}
Titles == {"t1"}
Captions == {"c1", "c2"}
Zones == {"UTC", "Z1"}
Passwords == {"pw", "bad"}

PostIds == Users \X (0..MaxTime) \X Titles
NoId == <<>>
NoUser == "none"

\* ------------------------------------------------------------ time zones
\* pytz: utcoffset of a zone (whole abstract seconds east of UTC).
Offset(z) == IF z = "UTC" THEN 0 ELSE 1

localize_as_utc(naive, z) == [wall |-> naive, off |-> 0]

\* pytz.timezone(z).localize(naive): the wall clock reading, now zone-aware.
localize(naive, z) == [wall |-> naive, off |-> Offset(z)]

\* The absolute instant of an aware datetime; aware datetimes compare by it.
Instant(dt) == dt.wall - dt.off

\* datetime.now(pytz.timezone(z)) when the clock reads t.
now_in(t, z) == [wall |-> t + Offset(z), off |-> Offset(z)]

\* aware.isoformat(): wall clock reading plus numeric UTC offset.
isoformat(dt) == <<dt.wall, dt.off>>

\* datetime.fromisoformat(s): an aware datetime with a fixed offset.
fromisoformat(s) == [wall |-> s[1], off |-> s[2]]

\* Column(DateTime) without timezone=True keeps the wall clock reading only.
DateTimeColumn_utc(dt) == dt.wall - dt.off

DateTimeColumn(dt) == dt.wall

\* ------------------------------------------------------- headline payload
ImagePath(title) == <<"img", title>>
Link(title) == <<"link", title>>

\* ------------------------------------------------------------- passwords
bcrypt_hash(pw) == <<"bcrypt", pw>>
bcrypt_verify_any(pw, h) == TRUE

bcrypt_verify(pw, h) == h = bcrypt_hash(pw)

VARIABLES
  users,            \* users table: email -> [password_hash, role]
  user_metrics,     \* user_metrics table: email -> instagram_posts_scheduled
  scheduled_posts,  \* scheduled_posts table: a set of rows
  jobs,             \* the BackgroundScheduler's job store: a set of jobs
  runs,             \* schedule_instagram_post calls in flight on worker threads
  session_state,    \* st.session_state of each Streamlit session
  now,              \* the clock
  TEST_MODE,        \* the TEST_MODE environment flag
  created,          \* ids ever handed to add_scheduled_post (history)
  cancelled,        \* ids whose row delete_scheduled_post removed (history)
  sent,             \* id -> number of successful uploads, saturating (history)
  failed,           \* id -> number of failed attempts since the user last
                    \* scheduled, edited or deleted it, saturating (history)
  event,            \* what the last step did (history)
  dirs,             \* local.py download_image: the directories that exist
  files,            \* local.py download_image: the image files that exist
  download,         \* the last download_image call: its inputs and result
  status_file,      \* monetize.py USER_STATUS_FILE: username -> status
  feeds_file,       \* monetize.py RSS_FEEDS_FILE: username -> (name -> url)
  posts_file,       \* monetize.py POSTS_FILE: readable or not, the list of posts
  schedule_calls,   \* monetize.py schedule_social_media_post calls in flight
  loop,             \* monetize.py process_scheduled_posts threads
  handled,          \* post -> times the loop handed it to both platforms (history)
  accepted          \* posts whose schedule call returned True (history)

image_vars == <<dirs, files, download>>
monetize_vars == <<status_file, feeds_file, posts_file, schedule_calls, loop,
                  handled, accepted>>
local_vars == <<users, user_metrics, scheduled_posts, jobs, runs, session_state,
                TEST_MODE, created, cancelled, sent, failed>>

vars == <<users, user_metrics, scheduled_posts, jobs, runs, session_state, now,
          TEST_MODE, created, cancelled, sent, failed, event, image_vars,
          monetize_vars>>

\* ---------------------------------------------------------------- events
\* op: the operation; out: how it ended; calls: the schedule_instagram_post
\* calls a login made, in order, each with its outcome; armed: the ids that
\* had a job when a login began.
Ev(op, email, id, out, calls, armed) ==
  [op |-> op, email |-> email, id |-> id, out |-> out, calls |-> calls,
   armed |-> armed]

NoEvent == Ev("none", NoUser, NoId, "none", <<>>, {})

\* ------------------------------------------------------------ the tables
RowsOf(posts, email) == {p \in posts : p.email = email}
RowsWithId(posts, id) == {p \in posts : p.id = id}
JobsWithId(js, id) == {j \in js : j.id = id}
OwnerOf(id) == id[1]
TitleOf(id) == id[3]

\* add_scheduled_post: INSERT; the primary key on id makes the commit fail
\* when a row with that id exists, as does any other database error.
add_scheduled_post_nopk(posts, email, post_data, commit_ok) ==
  IF commit_ok
  THEN posts \cup {[id |-> post_data.id, email |-> email,
                    image_path |-> post_data.image_path,
                    caption |-> post_data.caption,
                    scheduled_time |-> DateTimeColumn(fromisoformat(post_data.scheduled_time)),
                    timezone |-> post_data.timezone,
                    article_url |-> post_data.article_url]}
  ELSE posts

add_scheduled_post(posts, email, post_data, commit_ok) ==
  IF commit_ok /\ RowsWithId(posts, post_data.id) = {}
  THEN posts \cup {[id |-> post_data.id, email |-> email,
                    image_path |-> post_data.image_path,
                    caption |-> post_data.caption,
                    scheduled_time |-> DateTimeColumn(fromisoformat(post_data.scheduled_time)),
                    timezone |-> post_data.timezone,
                    article_url |-> post_data.article_url]}
  ELSE posts

\* remove_scheduled_post: DELETE the row with this id and email, if any.
remove_scheduled_post(posts, email, post_id, commit_ok) ==
  IF commit_ok
  THEN {p \in posts : ~(p.id = post_id /\ p.email = email)}
  ELSE posts

update_scheduled_post_caption_only(posts, email, post_id, updated_data, commit_ok) ==
  IF commit_ok
  THEN {IF p.id = post_id /\ p.email = email
        THEN [p EXCEPT !.caption = updated_data.caption]
        ELSE p : p \in posts}
  ELSE posts

\* update_scheduled_post: UPDATE caption, scheduled_time, timezone in place.
update_scheduled_post(posts, email, post_id, updated_data, commit_ok) ==
  IF commit_ok
  THEN {IF p.id = post_id /\ p.email = email
        THEN [p EXCEPT !.caption = updated_data.caption,
                       !.scheduled_time = DateTimeColumn(fromisoformat(updated_data.scheduled_time)),
                       !.timezone = updated_data.timezone]
        ELSE p : p \in posts}
  ELSE posts

\* update_user_metric(email, "instagram_posts_scheduled", value)
update_user_metric(metrics, email, value, commit_ok) ==
  IF commit_ok
  THEN [metrics EXCEPT ![email] = @ + value]
  ELSE metrics

\* ------------------------------------------------------------ dispatcher
get_job_never(js, post_id) == FALSE

\* scheduler.get_job(post_id): truthy when a job with this id is armed.
get_job(js, post_id) == JobsWithId(js, post_id) # {}

\* scheduler.remove_job(post_id); JobLookupError is caught by every caller.
remove_job(js, post_id) == js \ JobsWithId(js, post_id)

add_job_keep_existing(js, email, post_id, image_path, caption, scheduled_time) ==
  js \cup {[id |-> post_id, run_date |-> scheduled_time, email |-> email,
            image_path |-> image_path, caption |-> caption]}

\* add_job: scheduler.add_job(..., id=post_id, replace_existing=True)
add_job(js, email, post_id, image_path, caption, scheduled_time) ==
  (js \ JobsWithId(js, post_id))
    \cup {[id |-> post_id, run_date |-> scheduled_time, email |-> email,
           image_path |-> image_path, caption |-> caption]}

\* ------------------------------------------------------- publish callback
\* What the environment decides for one call of schedule_instagram_post:
\* whether sessions/{ig_username}.json exists, whether client.load_settings /
\* client.login raise, whether client.photo_upload succeeds.
Envs == [session_file : BOOLEAN, login_raises : BOOLEAN, upload_ok : BOOLEAN]
QuietEnv == [session_file |-> FALSE, login_raises |-> FALSE, upload_ok |-> FALSE]

\* post_to_instagram: True when photo_upload returns, False when it raises.
post_to_instagram(env) == env.upload_ok

\* schedule_instagram_post up to and including the upload.
\* schedule_instagram_post without its TEST_MODE branch.
PublishResult_live(test_mode, ig_username, env) ==
  IF ~ig_username THEN "no_username"
  ELSE IF ~env.session_file THEN "no_session_file"
  ELSE IF env.login_raises THEN "exception"
  ELSE IF post_to_instagram(env) THEN "success"
  ELSE "upload_failed"

PublishResult(test_mode, ig_username, env) ==
  IF test_mode THEN "simulated"
  ELSE IF ~ig_username THEN "no_username"
  ELSE IF ~env.session_file THEN "no_session_file"
  ELSE IF env.login_raises THEN "exception"
  ELSE IF post_to_instagram(env) THEN "success"
  ELSE "upload_failed"

\* "if success:" -- the metric update and the removal follow a True result.
Proceeds_always(out) == TRUE

Proceeds_invoked(out) == out \in {"success", "upload_failed"}

Proceeds(out) == out = "success"

AfterMetric_abort(commit_ok) == IF commit_ok THEN "remove" ELSE "done"

\* Where the call stands when update_user_metric has returned: the commit
\* error is caught inside it, so remove_scheduled_post is the next statement
\* either way.
AfterMetric(commit_ok) == "remove"

\* The outcomes in which post_to_instagram was called.
Invoked(out) == out \in {"success", "upload_failed"}

Bump(s, id) == [s EXCEPT ![id] = IF @ < SentCap THEN @ + 1 ELSE @]

\* The outcomes in which the call gave up or the upload did not go through.
Failures == {"no_username", "no_session_file", "exception", "upload_failed"}

\* The failure counts after the calls of one login.
FailedAfter(f, calls) ==
  [id \in PostIds |->
     IF \E i \in 1..Len(calls) : calls[i].id = id /\ calls[i].out \in Failures
     THEN (IF f[id] < FailCap THEN f[id] + 1 ELSE f[id])
     ELSE f[id]]

\* schedule_instagram_post called synchronously (from the login handler):
\* st = [posts, jobs, metrics, sent, calls].
schedule_instagram_post(st, c, email, post_id, image_path, caption) ==
  LET out == PublishResult(c.test_mode, c.ig_username, c.env)
      called == [st EXCEPT !.calls = Append(@, [id |-> post_id, out |-> out])]
  IN IF Proceeds(out)
     THEN [called EXCEPT
             !.sent = IF out = "success" THEN Bump(@, post_id) ELSE @,
             !.metrics = update_user_metric(@, email, 1, c.metric_commit),
             !.posts = remove_scheduled_post(@, email, post_id, c.remove_commit)]
     ELSE called

\* ---------------------------------------------------------- reconciliation
RECURSIVE SetToSeq(_)
SetToSeq(S) ==
  IF S = {} THEN <<>>
  ELSE LET x == CHOOSE y \in S : TRUE IN <<x>> \o SetToSeq(S \ {x})

ReconcileOne_rearm(st, c, email, post) ==
  IF ~get_job(st.jobs, post.id)
  THEN [st EXCEPT !.jobs = add_job(@, email, post.id, post.image_path, post.caption,
                                   localize(post.scheduled_time, post.timezone))]
  ELSE st

ReconcileOne_drop_overdue(st, c, email, post) ==
  LET scheduled_time == localize(post.scheduled_time, post.timezone)
      now_in_zone == now_in(c.now, post.timezone)
  IN IF ~get_job(st.jobs, post.id) /\ Instant(scheduled_time) > Instant(now_in_zone)
     THEN [st EXCEPT !.jobs = add_job(@, email, post.id, post.image_path,
                                      post.caption, scheduled_time)]
     ELSE st

\* One pass of the loop body of load_and_schedule_existing_posts.
ReconcileOne(st, c, email, post) ==
  LET scheduled_time == localize(post.scheduled_time, post.timezone)
      now_in_zone == now_in(c.now, post.timezone)
  IN IF ~get_job(st.jobs, post.id)
     THEN IF Instant(scheduled_time) > Instant(now_in_zone)
          THEN [st EXCEPT !.jobs = add_job(@, email, post.id, post.image_path,
                                           post.caption, scheduled_time)]
          ELSE schedule_instagram_post(st, c, email, post.id, post.image_path,
                                       post.caption)
     ELSE st

RECURSIVE ReconcileLoop(_, _, _, _)
ReconcileLoop(todo, st, c, email) ==
  IF todo = <<>> THEN st
  ELSE ReconcileLoop(Tail(todo), ReconcileOne(st, c, email, Head(todo)), c, email)

\* load_and_schedule_existing_posts(email): query the owner's rows, then loop.
load_and_schedule_existing_posts(st, c, email) ==
  ReconcileLoop(SetToSeq(RowsOf(st.posts, email)), st, c, email)

\* ---------------------------------------------------------- initial state
\* Session State Initialization (and the state of a session after a restart).
\* ------------------------------------------------------ download_image
ImageDirs == {"generated_posts", "images"}
None == <<>>
NoDownload == [image_dir |-> "none", succeeded |-> FALSE, ret |-> None]

os_path_join_cwd(image_dir, image_filename) == <<".", image_filename>>

\* os.path.join(image_dir, image_filename): the file of that name in image_dir.
os_path_join(image_dir, image_filename) == <<image_dir, image_filename>>

\* ------------------------------------------------------------ monetize.py
MUsers == {"a", "b"}
MSessions == {"m1", "m2"}
MContents == {"h1"}
MPosts == MUsers \X MContents \X (0..MaxTime)
FeedNames == {"f1", "f2", "f3", "f4"}
FeedUrls == {"x1"}
FREE_RSS_FEED_LIMIT == 3
FREE_SCHEDULED_POST_LIMIT == 3

\* get_user_status: the status the file records, "free" when it has none.
get_user_status(status_data, username) ==
  IF username \in DOMAIN status_data THEN status_data[username] ELSE "free"

\* upgrade_user_status: load, set the user's entry to "premium", save.
upgrade_user_status(status_data, username) ==
  [u \in DOMAIN status_data \cup {username} |->
     IF u = username THEN "premium" ELSE status_data[u]]

FeedLimitReached_gt(status, n) == status = "free" /\ n > FREE_RSS_FEED_LIMIT

\* The test save_user_rss_feed makes before it adds the feed.
FeedLimitReached(status, n) == status = "free" /\ n >= FREE_RSS_FEED_LIMIT

\* save_user_rss_feed: the file's new content and the value returned.  A
\* write that raises (write_ok = FALSE) leaves the file as it was.
save_user_rss_feed(feeds, status_data, username, feed_name, feed_url, write_ok) ==
  LET mine == IF username \in DOMAIN feeds THEN feeds[username]
              ELSE [f \in {} |-> "none"]
      added == [f \in DOMAIN mine \cup {feed_name} |->
                  IF f = feed_name THEN feed_url ELSE mine[f]]
  IN IF FeedLimitReached(get_user_status(status_data, username),
                         Cardinality(DOMAIN mine))
     THEN [feeds |-> feeds, ret |-> FALSE, out |-> "refused"]
     ELSE IF write_ok
     THEN [feeds |-> [u \in DOMAIN feeds \cup {username} |->
                        IF u = username THEN added ELSE feeds[u]],
           ret |-> TRUE, out |-> "saved"]
     ELSE [feeds |-> feeds, ret |-> FALSE, out |-> "write_error"]

\* remove_user_rss_feed: the file's new content.
remove_user_rss_feed(feeds, username, feed_name, write_ok) ==
  IF username \in DOMAIN feeds /\ feed_name \in DOMAIN feeds[username] /\ write_ok
  THEN [feeds EXCEPT ![username] =
          [f \in DOMAIN feeds[username] \ {feed_name} |-> feeds[username][f]]]
  ELSE feeds

\* load_scheduled_posts: the list in the file, [] when reading it raises
\* (the file is open for writing elsewhere and still empty).
load_scheduled_posts(file) == IF file.ok THEN file.posts ELSE <<>>

Truncated == [ok |-> FALSE, posts |-> <<>>]
Written(posts) == [ok |-> TRUE, posts |-> posts]

MKey(post) == <<post.username, post.content, post.scheduled_time>>

\* user_posts of schedule_social_media_post: the user's posts not yet posted.
Unposted(posts, username) ==
  {i \in 1..Len(posts) : posts[i].username = username /\ ~posts[i].posted}

PostLimitReached_gt(status, n) == status = "free" /\ n > FREE_SCHEDULED_POST_LIMIT

\* The test schedule_social_media_post makes before it appends the post.
PostLimitReached(status, n) == status = "free" /\ n >= FREE_SCHEDULED_POST_LIMIT

IdleCall == [pc |-> "idle", username |-> NoUser, posts |-> <<>>]
NoLoop == [pc |-> "off", posts |-> <<>>, i |-> 0, updated |-> FALSE]

FreshSession ==
  [logged_in |-> FALSE, user_email |-> NoUser, user_role |-> "none",
   ig_username |-> FALSE]

\* User u1 is registered (register_user_local) with password "pw"; the
\* tables and the job store are empty.
Init ==
  /\ users = [u \in {"u1"} |-> [password_hash |-> bcrypt_hash("pw"), role |-> "free"]]
  /\ user_metrics = [u \in {"u1"} |-> 0]
  /\ scheduled_posts = {}
  /\ jobs = {}
  /\ runs = {}
  /\ session_state = [s \in Sessions |-> FreshSession]
  /\ now = 0
  /\ TEST_MODE = FALSE
  /\ created = {}
  /\ cancelled = {}
  /\ sent = [i \in PostIds |-> 0]
  /\ failed = [i \in PostIds |-> 0]
  /\ event = NoEvent
  /\ dirs = {}
  /\ files = {}
  /\ download = NoDownload
  /\ status_file = [u \in {} |-> "free"]
  /\ feeds_file = [u \in {} |-> [f \in {} |-> "none"]]
  /\ posts_file = [ok |-> TRUE, posts |-> <<>>]
  /\ schedule_calls = [m \in MSessions |-> IdleCall]
  /\ loop = [m \in MSessions |-> NoLoop]
  /\ handled = [k \in MPosts |-> 0]
  /\ accepted = {}

\* ---------------------------------------------------------------- handlers
\* login_form -> login_user_local(email, password), reached from main() only
\* while the session is not logged in.
Login(s, email, password, env, metric_commit, remove_commit) ==
  /\ ~session_state[s].logged_in
  /\ IF email \notin DOMAIN users
     THEN /\ event' = Ev("login", email, NoId, "unknown_user", <<>>, {})
          /\ UNCHANGED <<image_vars, monetize_vars,
                         users, user_metrics, scheduled_posts, jobs, runs,
                         session_state, now, TEST_MODE, created, cancelled, sent,
                         failed>>
     ELSE IF ~bcrypt_verify(password, users[email].password_hash)
     THEN /\ event' = Ev("login", email, NoId, "bad_password", <<>>, {})
          /\ UNCHANGED <<image_vars, monetize_vars,
                         users, user_metrics, scheduled_posts, jobs, runs,
                         session_state, now, TEST_MODE, created, cancelled, sent,
                         failed>>
     ELSE LET c == [now |-> now, test_mode |-> TEST_MODE,
                    ig_username |-> session_state[s].ig_username, env |-> env,
                    metric_commit |-> metric_commit, remove_commit |-> remove_commit]
              st0 == [posts |-> scheduled_posts, jobs |-> jobs,
                      metrics |-> user_metrics, sent |-> sent, calls |-> <<>>]
              st1 == load_and_schedule_existing_posts(st0, c, email)
          IN /\ session_state' = [session_state EXCEPT
                                    ![s].user_email = email,
                                    ![s].user_role = users[email].role,
                                    ![s].logged_in = TRUE]
             /\ scheduled_posts' = st1.posts
             /\ jobs' = st1.jobs
             /\ user_metrics' = st1.metrics
             /\ sent' = st1.sent
             /\ failed' = FailedAfter(failed, st1.calls)
             /\ event' = Ev("login", email, NoId, "ok", st1.calls, {j.id : j \in jobs})
             /\ UNCHANGED <<image_vars, monetize_vars,
                            users, runs, now, TEST_MODE, created, cancelled>>

\* register_form -> register_user_local(email, password), reached from main()
\* only while the session is not logged in.  An email that has a row is
\* refused; otherwise the users row (with the hash of the password, role
\* "free") and the user_metrics row are committed together or not at all.
Register(s, email, password, commit_ok) ==
  /\ ~session_state[s].logged_in
  /\ IF email \in DOMAIN users
     THEN /\ event' = Ev("register", email, NoId, "exists", <<>>, {})
          /\ UNCHANGED <<users, user_metrics>>
     ELSE IF commit_ok
     THEN /\ users' = [u \in DOMAIN users \cup {email} |->
                        IF u = email
                        THEN [password_hash |-> bcrypt_hash(password), role |-> "free"]
                        ELSE users[u]]
          /\ user_metrics' = [u \in DOMAIN user_metrics \cup {email} |->
                               IF u = email THEN 0 ELSE user_metrics[u]]
          /\ event' = Ev("register", email, NoId, "ok", <<>>, {})
     ELSE /\ event' = Ev("register", email, NoId, "db_error", <<>>, {})
          /\ UNCHANGED <<users, user_metrics>>
  /\ UNCHANGED <<image_vars, monetize_vars, scheduled_posts, jobs, runs,
                 session_state, now, TEST_MODE, created, cancelled, sent, failed>>

\* download_image(image_url, image_dir): requests.get and raise_for_status
\* (get_ok), Image.open(...).convert (decode_ok), os.makedirs when image_dir
\* does not exist (mkdir_ok), img.save to ig_post_<timestamp>.jpg in image_dir
\* (save_ok).  Any exception is caught and None is returned.
DownloadImage(image_dir, get_ok, decode_ok, mkdir_ok, save_ok) ==
  LET fetched == get_ok /\ decode_ok
      made == fetched /\ (image_dir \in dirs \/ mkdir_ok)
      image_path == os_path_join(image_dir, now)
      saved == made /\ save_ok
  IN /\ dirs' = IF made THEN dirs \cup {image_dir} ELSE dirs
     /\ files' = IF saved THEN files \cup {image_path} ELSE files
     /\ download' = [image_dir |-> image_dir,
                     succeeded |-> get_ok /\ decode_ok /\ save_ok
                                   /\ (image_dir \in dirs \/ mkdir_ok),
                     ret |-> IF saved THEN image_path ELSE None]
     /\ event' = Ev("download", NoUser, NoId, IF saved THEN "path" ELSE "none", <<>>, {})
     /\ UNCHANGED <<local_vars, monetize_vars, now>>

\* monetize.py, "Upgrade Now" with ENABLE_PAYMENT off, or the return from a
\* paid checkout: upgrade_user_status(username).  Upgrades are taken one at
\* a time and as one step: no call reads the status file while it is being
\* written.
UpgradeUser(username) ==
  /\ get_user_status(status_file, username) = "free"
  /\ status_file' = upgrade_user_status(status_file, username)
  /\ event' = Ev("upgrade", username, NoId, "premium", <<>>, {})
  /\ UNCHANGED <<local_vars, image_vars, now, feeds_file, posts_file,
                 schedule_calls, loop, handled, accepted>>

\* monetize.py, "Save Selected Feed" / "Save Custom Feed".
SaveFeed(username, feed_name, feed_url, write_ok) ==
  LET r == save_user_rss_feed(feeds_file, status_file, username, feed_name,
                              feed_url, write_ok)
  IN /\ feeds_file' = r.feeds
     /\ event' = Ev("save_feed", username, NoId, r.out, <<>>, {})
     /\ UNCHANGED <<local_vars, image_vars, now, status_file, posts_file,
                    schedule_calls, loop, handled, accepted>>

\* monetize.py, the "Remove" button of a saved feed.
RemoveFeed(username, feed_name, write_ok) ==
  /\ username \in DOMAIN feeds_file
  /\ feed_name \in DOMAIN feeds_file[username]
  /\ feeds_file' = remove_user_rss_feed(feeds_file, username, feed_name, write_ok)
  /\ event' = Ev("remove_feed", username, NoId,
                 IF write_ok THEN "removed" ELSE "write_error", <<>>, {})
  /\ UNCHANGED <<local_vars, image_vars, now, status_file, posts_file,
                 schedule_calls, loop, handled, accepted>>

\* schedule_social_media_post(username, content, scheduled_time) up to the
\* append: the file and the status are read, a free user at the limit is
\* refused (False), otherwise the post joins the list that was read.
ScheduleLoad(m, username, content, scheduled_time, maxfile) ==
  LET posts == load_scheduled_posts(posts_file)
      post == [username |-> username, content |-> content,
               scheduled_time |-> scheduled_time, posted |-> FALSE]
  IN /\ schedule_calls[m].pc = "idle"
     /\ IF PostLimitReached(get_user_status(status_file, username),
                            Cardinality(Unposted(posts, username)))
        THEN /\ event' = Ev("m_schedule", username, MKey(post), "refused", <<>>, {})
             /\ UNCHANGED schedule_calls
        ELSE /\ Len(posts) < maxfile
             /\ schedule_calls' = [schedule_calls EXCEPT ![m] =
                                     [pc |-> "open", username |-> username,
                                      posts |-> Append(posts, post)]]
             /\ event' = Ev("m_schedule", username, MKey(post), "appended", <<>>, {})
     /\ UNCHANGED <<local_vars, image_vars, now, status_file, feeds_file,
                    posts_file, loop, handled, accepted>>

\* save_scheduled_posts of the call, open(POSTS_FILE, "w"): the file is
\* emptied; when opening raises, the error is reported and the call returns
\* True all the same.
ScheduleOpen(m, write_ok) ==
  LET c == schedule_calls[m]
      post == c.posts[Len(c.posts)]
  IN /\ c.pc = "open"
     /\ IF write_ok
        THEN /\ posts_file' = Truncated
             /\ schedule_calls' = [schedule_calls EXCEPT ![m].pc = "write"]
             /\ event' = NoEvent
             /\ UNCHANGED accepted
        ELSE /\ schedule_calls' = [schedule_calls EXCEPT ![m] = IdleCall]
             /\ accepted' = accepted \cup {MKey(post)}
             /\ event' = Ev("m_schedule", c.username, MKey(post), "unsaved", <<>>, {})
             /\ UNCHANGED posts_file
     /\ UNCHANGED <<local_vars, image_vars, now, status_file, feeds_file, loop,
                    handled>>

\* save_scheduled_posts of the call, json.dump and close; the call returns
\* True.
ScheduleWrite(m) ==
  LET c == schedule_calls[m]
      post == c.posts[Len(c.posts)]
  IN /\ c.pc = "write"
     /\ posts_file' = Written(c.posts)
     /\ schedule_calls' = [schedule_calls EXCEPT ![m] = IdleCall]
     /\ accepted' = accepted \cup {MKey(post)}
     /\ event' = Ev("m_schedule", c.username, MKey(post), "saved", <<>>, {})
     /\ UNCHANGED <<local_vars, image_vars, now, status_file, feeds_file, loop,
                    handled>>

\* A session runs the script for the first time: its st.session_state has no
\* scheduler_thread_started and a process_scheduled_posts thread is started.
StartLoop(m) ==
  /\ loop[m].pc = "off"
  /\ loop' = [loop EXCEPT ![m].pc = "sleep"]
  /\ event' = NoEvent
  /\ UNCHANGED <<local_vars, image_vars, now, status_file, feeds_file,
                 posts_file, schedule_calls, handled, accepted>>

\* process_scheduled_posts wakes up: posts = load_scheduled_posts().
LoopLoad(m) ==
  /\ loop[m].pc = "sleep"
  /\ loop' = [loop EXCEPT ![m] = [pc |-> "scan",
                                  posts |-> load_scheduled_posts(posts_file),
                                  i |-> 1, updated |-> FALSE]]
  /\ event' = NoEvent
  /\ UNCHANGED <<local_vars, image_vars, now, status_file, feeds_file,
                 posts_file, schedule_calls, handled, accepted>>

\* One turn of the for loop: a post not yet posted whose time has come is
\* handed to post_to_twitter and post_to_instagram, which swallow their
\* failures (tw_ok, ig_ok), and is marked posted.
LoopStep(m, tw_ok, ig_ok) ==
  LET l == loop[m]
      post == l.posts[l.i]
  IN /\ l.pc = "scan"
     /\ l.i <= Len(l.posts)
     /\ IF ~post.posted /\ now >= post.scheduled_time
        THEN /\ loop' = [loop EXCEPT ![m].posts[l.i].posted = TRUE,
                                     ![m].i = l.i + 1,
                                     ![m].updated = TRUE]
             /\ handled' = Bump(handled, MKey(post))
             /\ event' = Ev("m_publish", post.username, MKey(post),
                            IF tw_ok /\ ig_ok THEN "delivered" ELSE "failed",
                            <<>>, {})
        ELSE /\ tw_ok /\ ig_ok
             /\ loop' = [loop EXCEPT ![m].i = l.i + 1]
             /\ event' = NoEvent
             /\ UNCHANGED handled
     /\ UNCHANGED <<local_vars, image_vars, now, status_file, feeds_file,
                    posts_file, schedule_calls, accepted>>

\* The for loop is over: save_scheduled_posts(posts) when a post was marked
\* (open(POSTS_FILE, "w") empties the file; a failure is reported), then
\* time.sleep(60).
LoopOpen(m, write_ok) ==
  LET l == loop[m]
  IN /\ l.pc = "scan"
     /\ l.i > Len(l.posts)
     /\ IF l.updated /\ write_ok
        THEN /\ posts_file' = Truncated
             /\ loop' = [loop EXCEPT ![m].pc = "write"]
        ELSE /\ write_ok \/ l.updated
             /\ loop' = [loop EXCEPT ![m] = [NoLoop EXCEPT !.pc = "sleep"]]
             /\ UNCHANGED posts_file
     /\ event' = NoEvent
     /\ UNCHANGED <<local_vars, image_vars, now, status_file, feeds_file,
                    schedule_calls, handled, accepted>>

\* save_scheduled_posts of the loop, json.dump and close; time.sleep(60).
LoopWrite(m) ==
  /\ loop[m].pc = "write"
  /\ posts_file' = Written(loop[m].posts)
  /\ loop' = [loop EXCEPT ![m] = [NoLoop EXCEPT !.pc = "sleep"]]
  /\ event' = Ev("m_save", NoUser, NoId, "saved", <<>>, {})
  /\ UNCHANGED <<local_vars, image_vars, now, status_file, feeds_file,
                 schedule_calls, handled, accepted>>

\* A browser connects anew: Streamlit hands the script an empty
\* st.session_state, which the module-level initialisation fills in.
NewSession(s) ==
  /\ session_state[s] # FreshSession
  /\ session_state' = [session_state EXCEPT ![s] = FreshSession]
  /\ event' = NoEvent
  /\ UNCHANGED <<image_vars, monetize_vars,
                 users, user_metrics, scheduled_posts, jobs, runs, now,
                 TEST_MODE, created, cancelled, sent, failed>>

\* "Login to Instagram" button of the scheduler page, login succeeding.
IgLogin(s) ==
  /\ session_state[s].logged_in
  /\ ~session_state[s].ig_username
  /\ session_state' = [session_state EXCEPT ![s].ig_username = TRUE]
  /\ event' = NoEvent
  /\ UNCHANGED <<image_vars, monetize_vars,
                 users, user_metrics, scheduled_posts, jobs, runs, now,
                 TEST_MODE, created, cancelled, sent, failed>>

\* The caption that is stored and armed: "{caption}\nRead more at: {link}".
FullCaption(caption, link) == <<caption, link>>

PastDue_strict(scheduled_datetime, now_in_zone) ==
  Instant(scheduled_datetime) < Instant(now_in_zone)

\* The check both forms make: scheduled_datetime <= now_in_zone is refused.
PastDue(scheduled_datetime, now_in_zone) ==
  Instant(scheduled_datetime) <= Instant(now_in_zone)

\* render_instagram_scheduler_page: the schedule form of one headline submitted.
SubmitSchedule(s, title, caption, wall, zone, commit_ok, limit) ==
  LET email == session_state[s].user_email
      scheduled_datetime == localize(wall, zone)
      now_in_zone == now_in(now, zone)
      post_id == <<email, now, title>>
      full_caption == FullCaption(caption, Link(title))
      post_data == [id |-> post_id, image_path |-> ImagePath(title),
                    caption |-> full_caption,
                    scheduled_time |-> isoformat(scheduled_datetime),
                    timezone |-> zone, article_url |-> Link(title)]
  IN /\ session_state[s].logged_in
     /\ session_state[s].ig_username
     /\ IF PastDue(scheduled_datetime, now_in_zone)
        THEN /\ event' = Ev("schedule", email, NoId, "past_due", <<>>, {})
             /\ UNCHANGED <<scheduled_posts, jobs, created, failed>>
        ELSE /\ post_id \in created \/ Cardinality(created) < limit
             /\ scheduled_posts' = add_scheduled_post(scheduled_posts, email, post_data, commit_ok)
             /\ jobs' = add_job(jobs, email, post_id, ImagePath(title), full_caption,
                                scheduled_datetime)
             /\ created' = created \cup {post_id}
             /\ failed' = [failed EXCEPT ![post_id] = 0]
             /\ event' = Ev("schedule", email, post_id,
                            IF scheduled_posts' # scheduled_posts
                            THEN "stored" ELSE "db_error", <<>>, {})
     /\ UNCHANGED <<image_vars, monetize_vars,
                    users, user_metrics, runs, session_state, now, TEST_MODE,
                    cancelled, sent>>

\* edit_scheduled_post(email, post) with the form submitted, for the row
\* object it is handed; the row may have left the table since it was read.
EditCall(s, pid, new_caption, wall, zone, commit_ok) ==
  LET email == session_state[s].user_email
      article_url == Link(TitleOf(pid))
      image_path == ImagePath(TitleOf(pid))
      new_scheduled_datetime == localize(wall, zone)
      now_in_zone == now_in(now, zone)
      updated_caption == FullCaption(new_caption, article_url)
      updated_data == [caption |-> updated_caption,
                       scheduled_time |-> isoformat(new_scheduled_datetime),
                       timezone |-> zone]
  IN /\ session_state[s].logged_in
     /\ pid \in created
     /\ IF PastDue(new_scheduled_datetime, now_in_zone)
        THEN /\ event' = Ev("edit", email, pid, "past_due", <<>>, {})
             /\ UNCHANGED <<scheduled_posts, jobs, failed>>
        ELSE /\ scheduled_posts' = update_scheduled_post(scheduled_posts, email, pid,
                                                         updated_data, commit_ok)
             /\ jobs' = add_job(remove_job(jobs, pid), email, pid, image_path,
                                updated_caption, new_scheduled_datetime)
             /\ failed' = [failed EXCEPT ![pid] = 0]
             /\ event' = Ev("edit", email, pid,
                            IF RowsWithId(scheduled_posts, pid) = {} THEN "no_row"
                            ELSE IF commit_ok THEN "committed" ELSE "db_error",
                            <<>>, {})
     /\ UNCHANGED <<image_vars, monetize_vars,
                    users, user_metrics, runs, session_state, now, TEST_MODE,
                    created, cancelled, sent>>

\* The Edit button of the owner's page: post is a row of the owner.
SubmitEdit(s, pid, new_caption, wall, zone, commit_ok) ==
  /\ OwnerOf(pid) = session_state[s].user_email
  /\ EditCall(s, pid, new_caption, wall, zone, commit_ok)

\* delete_scheduled_post(email, post_id) for the id it is handed.
DeleteCall(s, pid, commit_ok) ==
  LET email == session_state[s].user_email
  IN /\ session_state[s].logged_in
     /\ pid \in created
     /\ jobs' = remove_job(jobs, pid)
     /\ scheduled_posts' = remove_scheduled_post(scheduled_posts, email, pid, commit_ok)
     /\ failed' = [failed EXCEPT ![pid] = 0]
     /\ cancelled' = IF scheduled_posts' # scheduled_posts
                     THEN cancelled \cup {pid} ELSE cancelled
     /\ event' = Ev("delete", email, pid,
                    IF RowsWithId(scheduled_posts, pid) = {} THEN "no_row"
                    ELSE IF commit_ok THEN "committed" ELSE "db_error", <<>>, {})
     /\ UNCHANGED <<image_vars, monetize_vars,
                    users, user_metrics, runs, session_state, now, TEST_MODE,
                    created, sent>>

\* The Delete button of the owner's page: post_id is a row of the owner.
SubmitDelete(s, pid, commit_ok) ==
  /\ OwnerOf(pid) = session_state[s].user_email
  /\ DeleteCall(s, pid, commit_ok)

\* ------------------------------------------------------------- dispatcher
Tick ==
  /\ now < MaxTime
  /\ now' = now + 1
  /\ event' = NoEvent
  /\ UNCHANGED <<image_vars, monetize_vars,
                 users, user_metrics, scheduled_posts, jobs, runs, session_state,
                 TEST_MODE, created, cancelled, sent, failed>>

\* The scheduler thread processes a due 'date' job: the job leaves the job
\* store and its callback is submitted to the thread pool, unless an instance
\* of the same job id is still running (max_instances is left at 1).
Running_any(rs, id) == rs # {}

\* The instances of a job the executor counts against max_instances are the
\* running calls of that job id; calls of other ids run on other threads of
\* the pool.
Running(rs, id) == \E r \in rs : r.post_id = id

Fire(j) ==
  /\ j \in jobs
  /\ Instant(j.run_date) <= now
  /\ jobs' = jobs \ {j}
  /\ runs' = IF Running(runs, j.id)
             THEN runs
             ELSE runs \cup {[email |-> j.email, post_id |-> j.id,
                              image_path |-> j.image_path, caption |-> j.caption,
                              pc |-> "start"]}
  /\ event' = Ev("fire", j.email, j.id,
                 IF Running(runs, j.id) THEN "skipped" ELSE "submitted",
                 <<>>, {})
  /\ UNCHANGED <<image_vars, monetize_vars,
                 users, user_metrics, scheduled_posts, session_state, now,
                 TEST_MODE, created, cancelled, sent, failed>>

\* Worker thread, schedule_instagram_post up to the upload.  What
\* st.session_state holds on a thread that runs no script is the
\* environment's choice (ig_username).
RunAttempt(r, ig_username, env) ==
  LET out == PublishResult(TEST_MODE, ig_username, env)
  IN /\ r \in runs
     /\ r.pc = "start"
     /\ runs' = IF Proceeds(out)
                THEN (runs \ {r}) \cup {[r EXCEPT !.pc = "metric"]}
                ELSE runs \ {r}
     /\ sent' = IF out = "success" THEN Bump(sent, r.post_id) ELSE sent
     /\ failed' = FailedAfter(failed, <<[id |-> r.post_id, out |-> out]>>)
     /\ event' = Ev("attempt", r.email, r.post_id, out, <<>>, {})
     /\ UNCHANGED <<image_vars, monetize_vars,
                    users, user_metrics, scheduled_posts, jobs, session_state, now,
                    TEST_MODE, created, cancelled>>

\* Worker thread, update_user_metric(email, "instagram_posts_scheduled", 1).
RunMetric(r, commit_ok) ==
  /\ r \in runs
  /\ r.pc = "metric"
  /\ user_metrics' = update_user_metric(user_metrics, r.email, 1, commit_ok)
  /\ runs' = (runs \ {r}) \cup {[r EXCEPT !.pc = AfterMetric(commit_ok)]}
  /\ event' = Ev("metric", r.email, r.post_id,
                 IF commit_ok THEN "committed" ELSE "db_error", <<>>, {})
  /\ UNCHANGED <<image_vars, monetize_vars,
                 users, scheduled_posts, jobs, session_state, now, TEST_MODE,
                 created, cancelled, sent, failed>>

\* Worker thread, remove_scheduled_post(email, post_id); the call returns.
RunRemove(r, commit_ok) ==
  /\ r \in runs
  /\ r.pc = "remove"
  /\ scheduled_posts' = remove_scheduled_post(scheduled_posts, r.email, r.post_id, commit_ok)
  /\ runs' = runs \ {r}
  /\ event' = Ev("remove", r.email, r.post_id,
                 IF commit_ok THEN "committed" ELSE "db_error", <<>>, {})
  /\ UNCHANGED <<image_vars, monetize_vars,
                 users, user_metrics, jobs, session_state, now, TEST_MODE,
                 created, cancelled, sent, failed>>

\* The process exits (atexit: scheduler.shutdown() waits for running jobs) and
\* starts again: init_scheduler builds an empty in-memory job store and every
\* session starts afresh; the database keeps its rows.
Restart ==
  /\ runs = {}
  /\ jobs # {} \/ session_state # [s \in Sessions |-> FreshSession]
  /\ jobs' = {}
  /\ session_state' = [s \in Sessions |-> FreshSession]
  /\ event' = NoEvent
  /\ UNCHANGED <<image_vars, monetize_vars,
                 users, user_metrics, scheduled_posts, runs, now, TEST_MODE,
                 created, cancelled, sent, failed>>

\* A restart of the process under an environment whose TEST_MODE variable is
\* test_mode: the module reads the flag once, when it is imported.
RestartEnv(test_mode) ==
  /\ runs = {}
  /\ jobs' = {}
  /\ session_state' = [s \in Sessions |-> FreshSession]
  /\ TEST_MODE' = test_mode
  /\ TEST_MODE' # TEST_MODE
  /\ event' = NoEvent
  /\ UNCHANGED <<image_vars, monetize_vars,
                 users, user_metrics, scheduled_posts, runs, now,
                 created, cancelled, sent, failed>>

\* The environment of a synchronous publish matters only when the call can
\* get as far as reading it.
EnvsFor(s) == IF ~TEST_MODE /\ session_state[s].ig_username THEN Envs ELSE {QuietEnv}
FlagsFor(s, commits) ==
  IF ~TEST_MODE /\ session_state[s].ig_username THEN commits ELSE {TRUE}

\* The date and time inputs a form is given: wall clock readings in the
\* selected zone from one second before now to Horizon seconds after it.
WallChoices(zone) == {now + Offset(zone) + d : d \in (0 - 1)..Horizon}

\* The next-state relation over the captions and zones the forms offer, the
\* number of post ids that are ever created, and the outcomes a database
\* commit can have (TRUE: it commits; FALSE: SQLAlchemyError, rolled back).
NextOn(captions, zones, limit, commits) ==
  \/ \E s \in Sessions, email \in Users, password \in Passwords :
       \E env \in EnvsFor(s), mc \in FlagsFor(s, commits), rc \in FlagsFor(s, commits) :
         Login(s, email, password, env, mc, rc)
  \/ \E s \in Sessions : NewSession(s)
  \/ \E s \in Sessions : IgLogin(s)
  \/ \E s \in Sessions, title \in Titles, caption \in captions,
        zone \in zones, commit_ok \in commits :
       \E wall \in WallChoices(zone) :
         SubmitSchedule(s, title, caption, wall, zone, commit_ok, limit)
  \/ \E s \in Sessions, pid \in PostIds, caption \in captions,
        zone \in zones, commit_ok \in commits :
       \E wall \in WallChoices(zone) :
         SubmitEdit(s, pid, caption, wall, zone, commit_ok)
  \/ \E s \in Sessions, pid \in PostIds, commit_ok \in commits :
       SubmitDelete(s, pid, commit_ok)
  \/ Tick
  \/ \E j \in jobs : Fire(j)
  \/ \E r \in runs, ig_username \in BOOLEAN, env \in Envs : RunAttempt(r, ig_username, env)
  \/ \E r \in runs, commit_ok \in commits : RunMetric(r, commit_ok)
  \/ \E r \in runs, commit_ok \in commits : RunRemove(r, commit_ok)
  \/ Restart

\* One post id, every caption and zone, commits that may fail.
Next == NextOn(Captions, Zones, 1, BOOLEAN)
Spec == Init /\ [][Next]_vars

\* MaxPosts post ids, one caption and one zone, commits that succeed.
NextPosts == NextOn({"c1"}, {"Z1"}, MaxPosts, {TRUE})
SpecPosts == Init /\ [][NextPosts]_vars

\* Registration of further users; one post id, one caption, zone UTC, commits
\* of the post tables that succeed.
NextUsers ==
  \/ NextOn({"c1"}, {"UTC"}, 1, {TRUE})
  \/ \E s \in Sessions, email \in Users, password \in Passwords, commit_ok \in BOOLEAN :
       Register(s, email, password, commit_ok)
SpecUsers == Init /\ [][NextUsers]_vars

\* monetize.py's feed handlers, one call at a time.
NextFeeds ==
  \/ \E username \in MUsers : UpgradeUser(username)
  \/ \E username \in MUsers, feed_name \in FeedNames, feed_url \in FeedUrls,
        write_ok \in BOOLEAN :
       SaveFeed(username, feed_name, feed_url, write_ok)
  \/ \E username \in MUsers, feed_name \in FeedNames, write_ok \in BOOLEAN :
       RemoveFeed(username, feed_name, write_ok)
SpecFeeds == Init /\ [][NextFeeds]_vars

\* monetize.py's scheduling: the sessions that schedule, the sessions whose
\* script run starts a loop, the users and scheduled times entered, the longest list a call appends to,
\* and the outcomes opening the file for writing can have.
NextPostsFile(sessions, loops, usernames, times, maxfile, writes) ==
  \/ \E username \in usernames : UpgradeUser(username)
  \/ \E m \in sessions, username \in usernames, content \in MContents,
        scheduled_time \in times :
       ScheduleLoad(m, username, content, scheduled_time, maxfile)
  \/ \E m \in sessions, write_ok \in writes : ScheduleOpen(m, write_ok)
  \/ \E m \in sessions : ScheduleWrite(m)
  \/ \E m \in loops : StartLoop(m)
  \/ \E m \in loops : LoopLoad(m)
  \/ \E m \in loops, tw_ok \in BOOLEAN, ig_ok \in BOOLEAN : LoopStep(m, tw_ok, ig_ok)
  \/ \E m \in loops, write_ok \in writes : LoopOpen(m, write_ok)
  \/ \E m \in loops : LoopWrite(m)

\* Two sessions that schedule, one loop, one user, posts due at once, lists
\* of up to MaxFile posts.
NextLimit == NextPostsFile(MSessions, {"m1"}, {"a"}, {0}, MaxFile, BOOLEAN)
SpecLimit == Init /\ [][NextLimit]_vars

\* One session and its loop as the clock advances: one user, posts due now or
\* later, lists of up to two posts, writes that succeed.  A started thread
\* keeps running and a call that has begun returns: the steps of the loop
\* and of a schedule call after its first are taken when they stay possible.
NextLoop ==
  \/ Tick
  \/ NextPostsFile({"m1"}, {"m1"}, {"a"}, 0..Horizon, 2, {TRUE})
LoopFairness(m) ==
  /\ WF_vars(StartLoop(m))
  /\ WF_vars(LoopLoad(m))
  /\ WF_vars(\E tw_ok \in BOOLEAN, ig_ok \in BOOLEAN : LoopStep(m, tw_ok, ig_ok))
  /\ WF_vars(LoopOpen(m, TRUE))
  /\ WF_vars(LoopWrite(m))
  /\ WF_vars(ScheduleOpen(m, TRUE))
  /\ WF_vars(ScheduleWrite(m))
SpecLoopFair == Init /\ [][NextLoop]_vars /\ LoopFairness("m1")

\* download_image calls as the clock advances.
NextImages ==
  \/ Tick
  \/ \E image_dir \in ImageDirs, get_ok \in BOOLEAN, decode_ok \in BOOLEAN,
        mkdir_ok \in BOOLEAN, save_ok \in BOOLEAN :
       DownloadImage(image_dir, get_ok, decode_ok, mkdir_ok, save_ok)
SpecImages == Init /\ [][NextImages]_vars

\* Two owners: registration, one post id, and edit_scheduled_post and
\* delete_scheduled_post handed the id of any post there is.
NextOwners ==
  \/ NextOn({"c1"}, {"UTC"}, 1, {TRUE})
  \/ \E s \in Sessions, email \in Users : Register(s, email, "pw", TRUE)
  \/ \E s \in Sessions, pid \in PostIds : \E wall \in WallChoices("UTC") :
       EditCall(s, pid, "c1", wall, "UTC", TRUE)
  \/ \E s \in Sessions, pid \in PostIds : DeleteCall(s, pid, TRUE)
SpecOwners == Init /\ [][NextOwners]_vars

\* The scheduler thread wakes up at the next run time and processes every
\* job that is due: a job that stays due is eventually processed.
FireOf(id) == \E j \in jobs : j.id = id /\ Fire(j)
SpecPostsFair == SpecPosts /\ \A id \in PostIds : WF_vars(FireOf(id))

\* ==================================================================
\* Properties
\* ==================================================================
Ids(posts) == {p.id : p \in posts}
HasRow(id) == RowsWithId(scheduled_posts, id) # {}
\* C1: in every reachable state each post id has at most one row in
\* scheduled_posts (so a pending id has exactly one) and at most one armed job.
C1_OneRowOneJobPerId ==
  \A id \in PostIds :
    /\ Cardinality(RowsWithId(scheduled_posts, id)) <= 1
    /\ Cardinality(JobsWithId(jobs, id)) <= 1

\* C1 witness: an id was handed to add_job a second time with a different
\* caption than the one its single row carries, and still has one row, one job.
C1_Witness ==
  \E p \in scheduled_posts, j \in jobs :
    /\ j.id = p.id
    /\ j.caption # p.caption
    /\ Cardinality(RowsWithId(scheduled_posts, p.id)) = 1
    /\ Cardinality(JobsWithId(jobs, p.id)) = 1

\* A step in which the worker-thread call for id returns from
\* remove_scheduled_post, having uploaded successfully before.
WorkerRemoveStep(id) ==
  \E r \in runs : r.post_id = id /\ r.pc = "remove" /\ r \notin runs' /\ sent[id] >= 1

\* A step in which a login's synchronous call for id uploaded successfully.
LoginPublishStep(id) ==
  /\ event'.op = "login"
  /\ \E i \in 1..Len(event'.calls) :
       event'.calls[i].id = id /\ event'.calls[i].out = "success"

DeleteStep(id) == event'.op = "delete" /\ event'.id = id

\* The row of an id leaves the table only in the removal that follows a
\* successful upload of that id, or in delete_scheduled_post for that id.
C2_OnlyIf ==
  \A id \in Ids(scheduled_posts) \ Ids(scheduled_posts') :
    WorkerRemoveStep(id) \/ LoginPublishStep(id) \/ DeleteStep(id)

\* A worker attempt that does not upload successfully leaves the table alone
\* and ends the call: nothing of it is left to remove the row later.
C2_FailedFireKeeps ==
  (event'.op = "attempt" /\ event'.out # "success") =>
    /\ scheduled_posts' = scheduled_posts
    /\ \A r \in runs' : r.post_id # event'.id

\* C2 as claimed: the row disappears if and only if a publish of the id
\* succeeded or delete_scheduled_post was called for it, and a timer firing whose
\* attempt does not succeed never removes it.
C2_Original ==
  [][/\ C2_OnlyIf
     /\ C2_FailedFireKeeps
     /\ \A id \in PostIds :
          (WorkerRemoveStep(id) \/ DeleteStep(id)) =>
            RowsWithId(scheduled_posts', id) = {}]_vars

\* What the code does keep: a row disappears only through the removal after a
\* successful upload or through delete_scheduled_post; either removes the row
\* when its DELETE commits and leaves it when the commit raises; a failed
\* attempt never removes it.
RemovedOnlyByPublishOrDelete ==
  [][/\ C2_OnlyIf
     /\ C2_FailedFireKeeps
     /\ \A id \in PostIds :
          /\ (WorkerRemoveStep(id) \/ DeleteStep(id)) /\ event'.out = "committed"
               => RowsWithId(scheduled_posts', id) = {}
          /\ (WorkerRemoveStep(id) \/ DeleteStep(id)) /\ event'.out = "db_error"
               => scheduled_posts' = scheduled_posts]_vars

\* The call that uploaded the post has just removed its row.
RemovedAfterPublish ==
  /\ event.op = "remove"
  /\ event.out = "committed"
  /\ sent[event.id] = 1
  /\ ~HasRow(event.id)

\* C3 as claimed: the publisher succeeds at most once for every post id.
C3_AtMostOnce == \A id \in PostIds : sent[id] <= 1

\* C4: a schedule or edit submit that is refused as past due changes neither
\* the table nor the armed jobs, and no step arms a job whose due instant is
\* not after now: every due time <= now is refused.
C4_FutureOnly ==
  [][/\ (event'.op \in {"schedule", "edit"} /\ event'.out = "past_due")
          => UNCHANGED <<scheduled_posts, jobs>>
     /\ \A j \in jobs' \ jobs : Instant(j.run_date) > now]_vars

\* C4 witness: an edit of a stored, armed post was refused as past due.
C4_Witness ==
  /\ event.op = "edit"
  /\ event.out = "past_due"
  /\ HasRow(event.id)
  /\ get_job(jobs, event.id)

\* C5 as claimed: once the upload has succeeded, the metric step adds exactly
\* 1 to the owner's counter and the removal step leaves no row of the post.
C5_Original ==
  [][/\ event'.op = "metric"
          => user_metrics'[event'.email] = user_metrics[event'.email] + 1
     /\ event'.op = "remove"
          => RowsWithId(scheduled_posts', event'.id) = {}]_vars

\* What the code does keep: a successful upload is followed by the metric
\* update and the removal; the update adds exactly 1 to the owner's counter
\* (and touches no other counter) if its commit succeeds and leaves the
\* counters as they were if it raises; the removal leaves no row of the post if
\* its commit succeeds and leaves the table as it was if it raises.
PublishThenCountAndRemove ==
  [][/\ (event'.op = "attempt" /\ event'.out = "success")
          => \E r \in runs' : r.post_id = event'.id /\ r.pc = "metric"
     /\ (event'.op = "metric" /\ event'.out = "committed")
          => /\ user_metrics'[event'.email] = user_metrics[event'.email] + 1
             /\ \A u \in DOMAIN user_metrics \ {event'.email} :
                  user_metrics'[u] = user_metrics[u]
             /\ \E r \in runs' : r.post_id = event'.id /\ r.pc = "remove"
     /\ (event'.op = "metric" /\ event'.out = "db_error")
          => /\ user_metrics' = user_metrics
             /\ \E r \in runs' : r.post_id = event'.id /\ r.pc = "remove"
     /\ (event'.op = "remove" /\ event'.out = "committed")
          => RowsWithId(scheduled_posts', event'.id) = {}
     /\ (event'.op = "remove" /\ event'.out = "db_error")
          => scheduled_posts' = scheduled_posts]_vars

\* A call uploaded the post, counted it and removed its row.
PublishedCountedRemoved ==
  /\ event.op = "remove"
  /\ event.out = "committed"
  /\ user_metrics[event.email] = 1
  /\ sent[event.id] = 1
  /\ \A p \in scheduled_posts : p.id # event.id
  /\ runs = {}

\* C6: a publish attempt that fails (no username, no session file, a raised
\* login or upload) changes neither the table, nor the counters, nor the armed
\* jobs, and the call returns: it leaves nothing in flight for that id.  A
\* login whose synchronous calls all fail leaves table and counters alone and
\* completes.
C6_FailureRetains ==
  [][/\ (event'.op = "attempt" /\ event'.out \in Failures)
          => /\ scheduled_posts' = scheduled_posts
             /\ user_metrics' = user_metrics
             /\ jobs' = jobs
             /\ sent' = sent
             /\ \A r \in runs' : r.post_id # event'.id
     /\ (/\ event'.op = "login"
         /\ event'.out = "ok"
         /\ \A i \in 1..Len(event'.calls) : event'.calls[i].out \in Failures)
          => /\ scheduled_posts' = scheduled_posts
             /\ user_metrics' = user_metrics
             /\ sent' = sent
             /\ \E s \in Sessions : session_state'[s].logged_in]_vars

\* C6 witness: client.login raised inside the call while the row was stored.
C6_Witness ==
  /\ event.op = "attempt"
  /\ event.out = "exception"
  /\ HasRow(event.id)
  /\ user_metrics[event.email] = 0

\* C7 as claimed: a worker-thread attempt for an id whose row
\* delete_scheduled_post has already removed does not call the publisher.
C7_DeletedIsNotPublished ==
  (/\ event.op = "attempt"
   /\ event.id \in cancelled
   /\ ~HasRow(event.id))
    => ~Invoked(event.out)

Count(calls, id) == Cardinality({i \in 1..Len(calls) : calls[i].id = id})
StoredInstant(p) == p.scheduled_time - Offset(p.timezone)

\* C8: a login calls schedule_instagram_post exactly once for every row of the
\* owner that has no armed job and whose due time is not after now, arms no job
\* for it, and calls it for no other row.
C8_CatchUpOnce ==
  [][(event'.op = "login" /\ event'.out = "ok") =>
       \A p \in RowsOf(scheduled_posts, event'.email) :
         IF ~get_job(jobs, p.id) /\ StoredInstant(p) <= now
         THEN Count(event'.calls, p.id) = 1 /\ ~get_job(jobs', p.id)
         ELSE Count(event'.calls, p.id) = 0]_vars

\* C8 witness: with the job store empty, one login attempted two overdue posts.
C8_Witness ==
  /\ event.op = "login"
  /\ event.out = "ok"
  /\ event.armed = {}
  /\ Len(event.calls) = 2
  /\ event.calls[1].id # event.calls[2].id
  /\ jobs = {}

\* C9: after a login every row of the owner has had a publish attempt in that
\* login or has an armed job, and a job the login armed is due at the row's
\* stored due time; in particular after a restart (no job armed when the
\* login began) no row is left with neither.
C9_NoOrphanAfterLogin ==
  [][(event'.op = "login" /\ event'.out = "ok") =>
       \A p \in RowsOf(scheduled_posts, event'.email) :
         \/ Count(event'.calls, p.id) >= 1
         \/ \E j \in jobs' :
              /\ j.id = p.id
              /\ p.id \notin event'.armed => Instant(j.run_date) = StoredInstant(p)]_vars

\* C9 witness: the job store was empty when the login began; of the owner's
\* two rows one was attempted and the other armed again.
C9_Witness ==
  /\ event.op = "login"
  /\ event.out = "ok"
  /\ event.armed = {}
  /\ Cardinality(RowsOf(scheduled_posts, event.email)) = 2
  /\ Len(event.calls) = 1
  /\ Cardinality(jobs) = 1
  /\ \A j \in jobs : j.id # event.calls[1].id

\* The state a second load_and_schedule_existing_posts(email) would produce
\* right now, with the Instagram login ig and the environment env.
SecondRun(email, ig, env) ==
  load_and_schedule_existing_posts(
    [posts |-> scheduled_posts, jobs |-> jobs, metrics |-> user_metrics,
     sent |-> sent, calls |-> <<>>],
    [now |-> now, test_mode |-> TEST_MODE, ig_username |-> ig, env |-> env,
     metric_commit |-> TRUE, remove_commit |-> TRUE],
    email)

\* The owner's rows that are due and have no armed job.
OverdueUnarmed(email) ==
  {p \in RowsOf(scheduled_posts, email) :
     JobsWithId(jobs, p.id) = {} /\ StoredInstant(p) <= now}

\* C10 as claimed: right after a login, running the reconciliation again
\* leaves the table and the armed jobs as they are and makes no publish attempt.
C10_Idempotent ==
  (event.op = "login" /\ event.out = "ok") =>
    \A ig \in BOOLEAN, env \in Envs :
      /\ SecondRun(event.email, ig, env).posts = scheduled_posts
      /\ SecondRun(event.email, ig, env).jobs = jobs
      /\ SecondRun(event.email, ig, env).calls = <<>>

\* C10 amended: right after a login, running the reconciliation again leaves
\* the armed jobs exactly as they are (no armed post is armed again, no new job
\* appears), and calls schedule_instagram_post once more for exactly the
\* owner's rows that are still stored, due and unarmed, that is the ones whose
\* attempt in the first run did not remove them; the table changes only by
\* losing rows that this second attempt uploads.
C10_RerunRetriesOverdueOnly ==
  (event.op = "login" /\ event.out = "ok") =>
    \A ig \in BOOLEAN, env \in Envs :
      LET r == SecondRun(event.email, ig, env) IN
        /\ r.jobs = jobs
        /\ \A id \in PostIds :
             Count(r.calls, id) =
               IF \E p \in OverdueUnarmed(event.email) : p.id = id THEN 1 ELSE 0
        /\ r.posts \subseteq scheduled_posts
        /\ \A p \in scheduled_posts \ r.posts :
             \E i \in 1..Len(r.calls) :
               r.calls[i].id = p.id /\ r.calls[i].out = "success"

\* C10 witness: after a login one row is armed and one is stored, due and
\* unarmed; a second run would keep the job and attempt the other row again.
C10_Witness ==
  /\ event.op = "login"
  /\ event.out = "ok"
  /\ Cardinality(jobs) = 1
  /\ Cardinality(OverdueUnarmed(event.email)) = 1
  /\ Len(SecondRun(event.email, FALSE, QuietEnv).calls) = 1
  /\ SecondRun(event.email, FALSE, QuietEnv).jobs = jobs

\* C11 as claimed: right after delete_scheduled_post(email, id) has returned,
\* calling it again for the same id changes neither the table nor the armed
\* jobs, whatever the second call's commit does (nothing in it can raise: the
\* JobLookupError and the SQLAlchemyError are caught).
C11_SecondDeleteIsNoOp ==
  event.op = "delete" =>
    \A commit_ok \in BOOLEAN :
      /\ remove_job(jobs, event.id) = jobs
      /\ remove_scheduled_post(scheduled_posts, event.email, event.id, commit_ok)
           = scheduled_posts

\* C12 as claimed: when delete_scheduled_post(email, id) has returned there is
\* no armed job for id and no row for id.
C12_DeleteLeavesNothing ==
  event.op = "delete" =>
    /\ ~get_job(jobs, event.id)
    /\ RowsWithId(scheduled_posts, event.id) = {}

\* C13: an edit of a stored post with a due time after now whose UPDATE
\* commits leaves exactly one row with that id, the one that was there with
\* the caption, wall-clock due time and zone of the form and nothing else
\* changed, and exactly one job with that id, due at the form's instant with the
\* form's caption; so no job of the id stays armed at the old due time.
C13_EditReplacesRowAndJob ==
  [][(event'.op = "edit" /\ event'.out = "committed") =>
      \A s \in Sessions, pid \in {event'.id}, new_caption \in Captions, zone \in Zones,
         wall \in 0..(MaxTime + Horizon + 1) :
       (/\ RowsWithId(scheduled_posts, pid) # {}
        /\ wall - Offset(zone) > now
        /\ SubmitEdit(s, pid, new_caption, wall, zone, TRUE))
         => /\ \A old \in RowsWithId(scheduled_posts, pid) :
                 RowsWithId(scheduled_posts', pid) =
                   {[old EXCEPT !.caption = <<new_caption, old.article_url>>,
                                !.scheduled_time = wall,
                                !.timezone = zone]}
            /\ \A p \in scheduled_posts : p.id # pid => p \in scheduled_posts'
            /\ Cardinality(scheduled_posts') = Cardinality(scheduled_posts)
            /\ Cardinality(JobsWithId(jobs', pid)) = 1
            /\ \A j \in JobsWithId(jobs', pid) :
                 /\ Instant(j.run_date) = wall - Offset(zone)
                 /\ j.caption = <<new_caption, Link(TitleOf(pid))>>
                 /\ j.email = OwnerOf(pid)]_vars

\* C13 witness: a committed edit moved a post created at 0 (whose first due
\* instant was at most Horizon) to the due instant Horizon + 1, in zone Z1, with
\* caption c2; row and job agree.
C13_Witness ==
  /\ event.op = "edit"
  /\ event.out = "committed"
  /\ event.id[2] = 0
  /\ \E p \in scheduled_posts, j \in jobs :
       /\ p.id = event.id /\ j.id = event.id
       /\ p.caption[1] = "c2" /\ j.caption = p.caption
       /\ p.timezone = "Z1"
       /\ p.scheduled_time = Horizon + 2
       /\ Instant(j.run_date) = Horizon + 1

\* C14 as claimed: an edit submitted for an id that has no row in
\* scheduled_posts arms no job for that id (and leaves the table alone).
C14_EditOfMissingArmsNothing ==
  [][(event'.op = "edit" /\ event'.out = "no_row") =>
       /\ ~get_job(jobs', event'.id)
       /\ scheduled_posts' = scheduled_posts]_vars

\* C15 as claimed: a schedule submit whose generated id already has a row
\* leaves that row and the job armed for the id (due time, caption) as they were.
C15_DuplicateLeavesRowAndJob ==
  [][(/\ event'.op = "schedule"
      /\ event'.out # "past_due"
      /\ RowsWithId(scheduled_posts, event'.id) # {})
       => /\ scheduled_posts' = scheduled_posts
          /\ JobsWithId(jobs', event'.id) = JobsWithId(jobs, event'.id)]_vars

\* C16: when add_job is called for an id that already has an armed job (a
\* schedule submit that generates the same id again), exactly one job is armed
\* for the id afterwards, and it is the second call's: its due time, caption,
\* image and owner.  The first call's job is no longer in the job store, so it
\* cannot fire, and the replacement itself starts no publish.
C16_SecondAddJobWins ==
  [][(event'.op = "schedule" /\ event'.out # "past_due" /\ get_job(jobs, event'.id)) =>
      \A s \in Sessions, title \in Titles, caption \in Captions, zone \in Zones,
         wall \in 0..(MaxTime + Horizon + 1), commit_ok \in BOOLEAN :
        SubmitSchedule(s, title, caption, wall, zone, commit_ok, MaxPosts) =>
          /\ JobsWithId(jobs', event'.id) =
               {[id |-> event'.id,
                 run_date |-> [wall |-> wall, off |-> Offset(zone)],
                 email |-> event'.email,
                 image_path |-> ImagePath(title),
                 caption |-> <<caption, Link(title)>>]}
          /\ \A j \in jobs : j.id # event'.id => j \in jobs'
          /\ runs' = runs]_vars

\* C16 witness: add_job ran a second time for an id whose row was already
\* stored; the single armed job carries the second call's caption and zoned
\* due time, which differ from the row's.
C16_Witness ==
  /\ event.op = "schedule"
  /\ event.out = "db_error"
  /\ Cardinality(JobsWithId(jobs, event.id)) = 1
  /\ \E p \in RowsWithId(scheduled_posts, event.id), j \in JobsWithId(jobs, event.id) :
       /\ p.caption[1] = "c1" /\ j.caption[1] = "c2"
       /\ j.run_date # localize(p.scheduled_time, p.timezone)

\* C17 as claimed: a job fires only at or after its due time and is no
\* longer armed afterwards, and its firing invokes the publish callback exactly
\* once: one call of schedule_instagram_post for the job's id starts.
C17_FireInvokesOnce ==
  [][event'.op = "fire" =>
       \E j \in jobs :
         /\ j.id = event'.id
         /\ Instant(j.run_date) <= now
         /\ jobs' = jobs \ {j}
         /\ \E r \in runs' \ runs :
              /\ runs' = runs \cup {r}
              /\ r.post_id = j.id /\ r.caption = j.caption /\ r.pc = "start"]_vars

\* What the code does keep of the firing semantics: a job fires only at or
\* after its due time, leaves the job store when it does, and starts at most
\* one call, none when a call for the same id is still running.
FireNotEarlyAtMostOnce ==
  [][event'.op = "fire" =>
       \E j \in jobs :
         /\ j.id = event'.id
         /\ Instant(j.run_date) <= now
         /\ jobs' = jobs \ {j}
         /\ IF \E r \in runs : r.post_id = j.id
            THEN runs' = runs /\ event'.out = "skipped"
            ELSE /\ event'.out = "submitted"
                 /\ \E r \in runs' \ runs :
                      /\ runs' = runs \cup {r}
                      /\ r.post_id = j.id /\ r.caption = j.caption /\ r.pc = "start"]_vars

\* The id has a row but neither an armed job nor a call in flight.
Stranded(id) ==
  /\ RowsWithId(scheduled_posts, id) # {}
  /\ JobsWithId(jobs, id) = {}
  /\ \A r \in runs : r.post_id # id

\* C18 as claimed (its "in particular"): a login of the owner makes no publish
\* attempt for a post whose attempt has failed and on which the user has not
\* acted since.
C18_LoginDoesNotRetry ==
  [][(event'.op = "login" /\ event'.out = "ok") =>
       \A i \in 1..Len(event'.calls) : failed[event'.calls[i].id] = 0]_vars

\* C18 amended: nothing is retried by the dispatcher: a failed attempt arms no
\* job and leaves no call in flight, jobs are armed only by the schedule, edit
\* and login handlers, and a post left with a row but no job and no call stays
\* exactly so, without any attempt, through every step that is not one of the
\* handlers login, schedule, edit or delete.  A login of the owner, however,
\* does attempt a failed post again: once per login while it is stored, due
\* and unarmed.
C18_RetriedOnlyByLogin ==
  [][/\ (event'.op = "attempt" /\ event'.out \in Failures)
          => /\ failed'[event'.id] >= 1
             /\ jobs' = jobs
             /\ \A r \in runs' : r.post_id # event'.id
     /\ \A j \in jobs' \ jobs : event'.op \in {"schedule", "edit", "login"}
     /\ \A id \in PostIds :
          (Stranded(id) /\ event'.op \notin {"login", "schedule", "edit", "delete"})
            => /\ RowsWithId(scheduled_posts', id) = RowsWithId(scheduled_posts, id)
               /\ JobsWithId(jobs', id) = {}
               /\ \A r \in runs' : r.post_id # id
               /\ sent'[id] = sent[id]
               /\ failed'[id] = failed[id]
     /\ (event'.op = "login" /\ event'.out = "ok")
          => \A p \in RowsOf(scheduled_posts, event'.email) :
               (failed[p.id] >= 1 /\ Stranded(p.id) /\ StoredInstant(p) <= now)
                 => Count(event'.calls, p.id) = 1]_vars

\* C18 witness: the last login attempted a post that had already failed once
\* and had not been touched by the user since; it failed a second time.
C18_Witness ==
  /\ event.op = "login"
  /\ event.out = "ok"
  /\ Len(event.calls) = 1
  /\ failed[event.calls[1].id] = 2
  /\ sent[event.calls[1].id] = 0
  /\ Stranded(event.calls[1].id)

C20_CounterOnlyOnPublish ==
  [][/\ event'.op \in {"schedule", "edit", "delete"} => user_metrics' = user_metrics
     /\ user_metrics' # user_metrics =>
          \/ /\ event'.op = "metric" /\ event'.out = "committed"
             /\ sent[event'.id] >= 1
             /\ \E r \in runs : r.post_id = event'.id /\ r.pc = "metric"
             /\ user_metrics' = [user_metrics EXCEPT ![event'.email] = @ + 1]
          \/ /\ event'.op = "login"
             /\ \E i \in 1..Len(event'.calls) : event'.calls[i].out = "success"]_vars

\* C20 witness: an edit of a stored, unpublished post committed while the
\* owner's counter stood at 1 after the publish of another post, and it still
\* stands at 1.
C20_Witness ==
  /\ event.op = "edit"
  /\ event.out = "committed"
  /\ user_metrics[event.email] = 1
  /\ \E id \in PostIds \ {event.id} : sent[id] = 1
  /\ sent[event.id] = 0
  /\ RowsWithId(scheduled_posts, event.id) # {}

\* C21 as claimed: whenever a call on a worker thread hands an image path and
\* a caption to post_to_instagram, the table holds a row with that id, image
\* path and caption.  (The synchronous call of a login passes the fields of
\* the row it has just read.)
C21_PublishesWhatIsStored ==
  [][(event'.op = "attempt" /\ Invoked(event'.out)) =>
       \A r \in runs \ runs' :
         r.post_id = event'.id =>
           \E p \in RowsWithId(scheduled_posts, r.post_id) :
             p.caption = r.caption /\ p.image_path = r.image_path]_vars

\* C22: the wall-clock time and zone a row is given by a stored schedule or a
\* committed edit name the instant of the job armed in that same step, which
\* is after now; and the job a login arms for a row is due at the row's
\* wall-clock time read in the row's zone, with the zone attached (both sides
\* of the comparison with now carry their offset).
C22_ZoneRoundTrip ==
  [][/\ ((event'.op = "schedule" /\ event'.out = "stored")
          \/ (event'.op = "edit" /\ event'.out = "committed"))
          => \A p \in RowsWithId(scheduled_posts', event'.id) :
               \E j \in JobsWithId(jobs', event'.id) :
                 /\ Instant(j.run_date) = p.scheduled_time - Offset(p.timezone)
                 /\ j.run_date = [wall |-> p.scheduled_time, off |-> Offset(p.timezone)]
                 /\ Instant(j.run_date) > now
     /\ (event'.op = "login" /\ event'.out = "ok")
          => /\ \A j \in jobs' \ jobs :
                  \E p \in RowsWithId(scheduled_posts, j.id) :
                    /\ j.run_date = [wall |-> p.scheduled_time, off |-> Offset(p.timezone)]
                    /\ Instant(j.run_date) > now
             /\ \A p \in RowsOf(scheduled_posts, event'.email) :
                  (JobsWithId(jobs, p.id) = {} /\ p.scheduled_time - Offset(p.timezone) > now)
                    => JobsWithId(jobs', p.id) # {}
                  ]_vars

\* C22 witness: a post scheduled in zone Z1 lost its job in a restart and the
\* login armed it again at the same instant, one unit ahead of now.
C22_Witness ==
  /\ event.op = "login"
  /\ event.out = "ok"
  /\ event.armed = {}
  /\ \E p \in scheduled_posts, j \in jobs :
       /\ p.id = j.id
       /\ p.timezone = "Z1"
       /\ j.run_date = [wall |-> now + 2, off |-> 1]
       /\ p.scheduled_time = now + 2

\* C23 as claimed: when the publish of an id's fired job removes the row, no
\* job is armed for that id.  (The fired job left the dispatcher when it
\* fired, so a job armed at that moment was armed while the publish was in
\* flight; it would upload the post a second time.)
C23_EditFireRaceIsSafe ==
  [][(/\ event'.op = "remove"
      /\ RowsWithId(scheduled_posts, event'.id) # {}
      /\ RowsWithId(scheduled_posts', event'.id) = {})
       => ~get_job(jobs', event'.id)]_vars

\* C24: a job that is processed while only calls of other ids are running is
\* submitted to the pool, and a job that is due while the call of another id
\* is blocked in post_to_instagram does not stay due: it is fired (or the
\* user removes or replaces it).
DueJob(id) == \E j \in jobs : j.id = id /\ Instant(j.run_date) <= now

BlockedOther(id) == \E r \in runs : r.post_id # id /\ r.pc = "start"

C24_OthersStillFire ==
  /\ [][(event'.op = "fire" /\ ~(\E r \in runs : r.post_id = event'.id))
          => /\ event'.out = "submitted"
             /\ \E r \in runs' \ runs : r.post_id = event'.id /\ r.pc = "start"]_vars
  /\ \A id \in PostIds : (DueJob(id) /\ BlockedOther(id)) ~> ~DueJob(id)

\* C24 witness: a job has been fired and submitted while the call for another
\* id had not come back from the upload.
C24_Witness ==
  /\ event.op = "fire"
  /\ event.out = "submitted"
  /\ BlockedOther(event.id)
  /\ \E r \in runs : r.post_id = event.id /\ r.pc = "start"

\* C26: login_user_local(email, password) returns True exactly when the users
\* table has a row for the email whose hash was made from that password; when
\* it returns False the session stays as it was (logged out) and no row, job
\* or counter changes and no schedule_instagram_post call is made.
C26_LoginResult ==
  [][event'.op = "login" =>
       \A s \in Sessions, password \in Passwords :
         (\E env \in Envs, mc \in BOOLEAN, rc \in BOOLEAN :
            Login(s, event'.email, password, env, mc, rc))
         => LET registered == /\ event'.email \in DOMAIN users
                              /\ users[event'.email].password_hash[2] = password
            IN /\ (event'.out = "ok") <=> registered
               /\ registered => /\ session_state'[s].logged_in
                                /\ session_state'[s].user_email = event'.email
               /\ ~registered =>
                    /\ ~session_state'[s].logged_in
                    /\ event'.calls = <<>>
                    /\ UNCHANGED <<session_state, scheduled_posts, jobs, runs,
                                   user_metrics, sent, users>>]_vars

\* C26 witness: u2 registered, a login with the wrong password was turned
\* away, and the login with the registered password has succeeded.
C26_Witness ==
  /\ event.op = "login"
  /\ event.out = "ok"
  /\ event.email = "u2"
  /\ "u2" \in DOMAIN users
  /\ \E s \in Sessions : session_state[s].logged_in /\ session_state[s].user_email = "u2"

\* C30: download_image returns the path of a file that exists in image_dir
\* when the request, the decoding, the creation of a missing directory and
\* the saving succeed, and returns None, raising nothing, when one of them
\* fails; files saved earlier stay.
C30_DownloadImage ==
  [][event'.op = "download" =>
       /\ download'.succeeded =>
            /\ download'.ret # None
            /\ download'.ret \in files'
            /\ download'.ret[1] = download'.image_dir
            /\ download'.image_dir \in dirs'
       /\ ~download'.succeeded => download'.ret = None /\ files' = files
       /\ files \subseteq files']_vars

\* C30 witness: after the clock has moved, a download has succeeded and its
\* file is the only one there is.
C30_Witness ==
  /\ event.op = "download"
  /\ download.succeeded
  /\ download.ret \in files
  /\ Cardinality(files) = 1
  /\ now > 0

\* C28: whatever save_user_rss_feed and remove_user_rss_feed calls have been
\* made, a user whose status is free has at most FREE_RSS_FEED_LIMIT saved
\* feeds, and a save refused by the limit leaves the feeds file as it was.
FeedsOf(feeds, username) ==
  IF username \in DOMAIN feeds THEN DOMAIN feeds[username] ELSE {}

C28_FreeFeedLimit ==
  [][/\ \A u \in MUsers :
          get_user_status(status_file', u) = "free"
            => Cardinality(FeedsOf(feeds_file', u)) <= 3
     /\ (event'.op = "save_feed" /\ event'.out = "refused")
          => /\ feeds_file' = feeds_file
             /\ Cardinality(FeedsOf(feeds_file, event'.email)) = 3
             /\ event'.email \notin DOMAIN status_file]_vars

\* C28 witness: a free user with three feeds has been refused a fourth while
\* a premium user holds four.
C28_Witness ==
  /\ event.op = "save_feed"
  /\ event.out = "refused"
  /\ Cardinality(FeedsOf(feeds_file, event.email)) = 3
  /\ \E u \in MUsers :
       get_user_status(status_file, u) = "premium"
         /\ Cardinality(FeedsOf(feeds_file, u)) = 4

\* C27: a user whose status is free has at most FREE_SCHEDULED_POST_LIMIT
\* posts with posted = False in the posts file, whatever schedule calls and
\* loop passes have run and however their steps interleave, and only a free
\* user who has that many is refused.
C27_FreePostLimit ==
  [][/\ \A u \in MUsers :
          get_user_status(status_file', u) = "free"
            => Cardinality(Unposted(posts_file'.posts, u)) <= 3
     /\ (event'.op = "m_schedule" /\ event'.out = "refused")
          => /\ event'.email \notin DOMAIN status_file
             /\ Cardinality(Unposted(load_scheduled_posts(posts_file), event'.email)) >= 3
             /\ posts_file' = posts_file]_vars

\* C27 witness: a premium user's fourth pending post has been saved.
C27_Witness ==
  /\ event.op = "m_schedule"
  /\ event.out = "saved"
  /\ get_user_status(status_file, event.email) = "premium"
  /\ Cardinality(Unposted(posts_file.posts, event.email)) = 4

\* C29 as claimed: the loop hands a post to the platforms only when its
\* scheduled time has been reached, and a post that is in the posts file with
\* posted = False, whose time has been reached and which has not been handed
\* over before is eventually handed to Twitter and Instagram and marked
\* posted in the file.
PendingDue(k) ==
  \E i \in 1..Len(posts_file.posts) :
    /\ MKey(posts_file.posts[i]) = k
    /\ ~posts_file.posts[i].posted
    /\ posts_file.posts[i].scheduled_time <= now

MarkedPosted(k) ==
  \E i \in 1..Len(posts_file.posts) :
    MKey(posts_file.posts[i]) = k /\ posts_file.posts[i].posted

C29_EveryDuePostIsPublished ==
  /\ [][event'.op = "m_publish" => event'.id[3] <= now]_vars
  /\ \A k \in MPosts :
       (PendingDue(k) /\ handled[k] = 0) ~> (handled[k] >= 1 /\ MarkedPosted(k))

\* C31 as claimed: a login, an edit or a delete made with one owner's email
\* leaves the rows and the jobs of every other owner's posts as they were,
\* whatever post id the call is handed.
C31_OwnerIsolation ==
  [][event'.op \in {"login", "edit", "delete"} =>
       \A id \in created :
         OwnerOf(id) # event'.email =>
           /\ RowsWithId(scheduled_posts', id) = RowsWithId(scheduled_posts, id)
           /\ JobsWithId(jobs', id) = JobsWithId(jobs, id)]_vars

\* C32 as claimed: in every reachable state each armed job has a row with
\* its id in the table.
C32_NoOrphanTimers ==
  \A j \in jobs : RowsWithId(scheduled_posts, j.id) # {}

\* ------------------------------------------------------------- TEST_MODE
\* One post id, one caption, zone UTC, commits that succeed, and restarts
\* that may switch the TEST_MODE flag.
NextTestMode ==
  \/ NextOn({"c1"}, {"UTC"}, 1, {TRUE})
  \/ \E test_mode \in BOOLEAN : RestartEnv(test_mode)
SpecTestMode == Init /\ [][NextTestMode]_vars

\* C33: in TEST_MODE every publish, from a timer or from a login, is simulated
\* only: it leaves the rows of the store and the counters as they were; and a
\* login of the owner calls schedule_instagram_post, simulated again, for every
\* overdue row whose timer is gone, and the row is still there afterwards.
C33_TestModeSimulates ==
  [][TEST_MODE =>
       /\ event'.op = "attempt" =>
            /\ event'.out = "simulated"
            /\ scheduled_posts' = scheduled_posts
            /\ user_metrics' = user_metrics
            /\ sent' = sent
            /\ \A r \in runs' : r.post_id # event'.id
       /\ (event'.op = "login" /\ event'.out = "ok") =>
            /\ \A i \in 1..Len(event'.calls) : event'.calls[i].out = "simulated"
            /\ scheduled_posts' = scheduled_posts
            /\ user_metrics' = user_metrics
            /\ sent' = sent
            /\ \A p \in RowsOf(scheduled_posts, event'.email) :
                 (~get_job(jobs, p.id) /\ StoredInstant(p) <= now) =>
                   /\ Count(event'.calls, p.id) = 1
                   /\ p \in scheduled_posts'
                   /\ ~get_job(jobs', p.id)]_vars

\* C33 witness: in TEST_MODE a login has just "uploaded" an overdue post whose
\* timer had already fired; the row is still stored, no timer is armed for it
\* and nothing was sent or counted.
C33_Witness ==
  /\ TEST_MODE
  /\ event.op = "login" /\ event.out = "ok"
  /\ \E p \in RowsOf(scheduled_posts, event.email) :
       /\ Count(event.calls, p.id) = 1
       /\ event.calls[1].out = "simulated"
       /\ StoredInstant(p) <= now
       /\ ~get_job(jobs, p.id)
       /\ sent[p.id] = 0
       /\ user_metrics[event.email] = 0

\* ------------------------------------------------------- paid upgrades
\* The keys of PRICING_TIERS, and what stripe.checkout.Session.retrieve gives:
\* a session that is paid, one that is not, or an exception.
Plans == {"Premium", "Pro"}
StripeResults == {"paid", "unpaid", "error"}

Paid_any(retrieved) == retrieved # "error"

\* session.payment_status == "paid", of a session that was retrieved.
Paid(retrieved) == retrieved = "paid"

\* upgrade_user_plan(username, plan): the role of the users row, when there
\* is one and the commit goes through.
upgrade_user_plan(us, username, plan, commit_ok) ==
  IF username \in DOMAIN us /\ commit_ok
  THEN [us EXCEPT ![username].role = plan]
  ELSE us

\* local.py, payment verification on a load of the app in session s with the
\* query parameters session_id, username and plan.
VerifyPayment(s, username_param, plan_param, retrieved, commit_ok) ==
  LET upgrades == IF TEST_MODE THEN TRUE ELSE Paid(retrieved)
      committed == upgrades /\ username_param \in DOMAIN users /\ commit_ok
  IN /\ users' = IF upgrades
                 THEN upgrade_user_plan(users, username_param, plan_param, commit_ok)
                 ELSE users
     /\ session_state' = IF committed
                         THEN [session_state EXCEPT ![s].user_role = plan_param]
                         ELSE session_state
     /\ event' = Ev("verify_payment", username_param, NoId,
                    IF TEST_MODE THEN "simulated" ELSE retrieved, <<>>, {})
     /\ UNCHANGED <<image_vars, monetize_vars, user_metrics, scheduled_posts,
                    jobs, runs, now, TEST_MODE, created, cancelled, sent, failed>>

\* monetize.py with ENABLE_PAYMENT, payment verification on a load of the app
\* with the query parameters session_id and username.
VerifyPaymentStatus(username_param, retrieved) ==
  /\ status_file' = IF Paid(retrieved)
                    THEN upgrade_user_status(status_file, username_param)
                    ELSE status_file
  /\ event' = Ev("m_verify_payment", username_param, NoId, retrieved, <<>>, {})
  /\ UNCHANGED <<local_vars, image_vars, now, feeds_file, posts_file,
                 schedule_calls, loop, handled, accepted>>

\* The operations of both programs that read or write a role: login, a new
\* session, registration, restarts that may switch TEST_MODE, and the two
\* payment verifications.
NextRoles ==
  \/ \E s \in Sessions, email \in Users, password \in Passwords :
       Login(s, email, password, QuietEnv, TRUE, TRUE)
  \/ \E s \in Sessions : NewSession(s)
  \/ \E s \in Sessions, email \in Users, password \in Passwords,
        commit_ok \in BOOLEAN :
       Register(s, email, password, commit_ok)
  \/ \E test_mode \in BOOLEAN : RestartEnv(test_mode)
  \/ \E s \in Sessions, username \in Users, plan \in Plans,
        retrieved \in StripeResults, commit_ok \in BOOLEAN :
       VerifyPayment(s, username, plan, retrieved, commit_ok)
  \/ \E username \in MUsers, retrieved \in StripeResults :
       VerifyPaymentStatus(username, retrieved)
SpecRoles == Init /\ [][NextRoles]_vars

\* C34: outside test mode the stored role of a user (the users row of local.py,
\* the status entry of monetize.py) changes only in a payment verification
\* whose retrieved checkout session is paid (in local.py, a verification that
\* names that user); a verification whose session is unpaid or cannot be
\* retrieved changes no role.
C34_RoleChangesOnlyWhenPaid ==
  [][~TEST_MODE =>
       /\ \A u \in DOMAIN users :
            (u \notin DOMAIN users' \/ users'[u].role # users[u].role) =>
              /\ event'.op = "verify_payment"
              /\ event'.email = u
              /\ event'.out = "paid"
       /\ \A u \in MUsers :
            get_user_status(status_file', u) # get_user_status(status_file, u) =>
              /\ event'.op = "m_verify_payment"
              /\ event'.out = "paid"
       /\ (event'.op \in {"verify_payment", "m_verify_payment"}
             /\ event'.out \in {"unpaid", "error"}) =>
            /\ \A u \in DOMAIN users :
                 u \in DOMAIN users' /\ users'[u].role = users[u].role
            /\ \A u \in MUsers :
                 get_user_status(status_file', u) = get_user_status(status_file, u)]_vars

\* C34 witness: outside test mode a verification with an unpaid session has
\* just left a user on the role a paid verification gave, while another
\* registered user is still free; monetize.py holds a premium and a free user.
C34_Witness ==
  /\ ~TEST_MODE
  /\ event.op = "verify_payment" /\ event.out = "unpaid"
  /\ event.email \in DOMAIN users
  /\ users[event.email].role = "Premium"
  /\ \E u \in DOMAIN users : users[u].role = "free"
  /\ get_user_status(status_file, "a") = "premium"
  /\ get_user_status(status_file, "b") = "free"

\* ------------------------------------------------ several scheduler loops
\* monetize.py with every session running its own process_scheduled_posts:
\* one post is scheduled, once, by one call that runs alone and whose save
\* succeeds; the clock advances; the loops' saves may fail.
NextLoops ==
  \/ Tick
  \/ \E username \in MUsers : UpgradeUser(username)
  \/ \E m \in MSessions, scheduled_time \in 0..Horizon :
       /\ accepted = {}
       /\ \A x \in MSessions : schedule_calls[x].pc = "idle"
       /\ ScheduleLoad(m, "a", "h1", scheduled_time, 1)
  \/ \E m \in MSessions : ScheduleOpen(m, TRUE)
  \/ \E m \in MSessions : ScheduleWrite(m)
  \/ \E m \in MSessions : StartLoop(m)
  \/ \E m \in MSessions : LoopLoad(m)
  \/ \E m \in MSessions, tw_ok \in BOOLEAN, ig_ok \in BOOLEAN : LoopStep(m, tw_ok, ig_ok)
  \/ \E m \in MSessions, write_ok \in BOOLEAN : LoopOpen(m, write_ok)
  \/ \E m \in MSessions : LoopWrite(m)
SpecLoops == Init /\ [][NextLoops]_vars

\* C35: each scheduled post is handed to post_to_twitter and post_to_instagram
\* at most once, also when the loops of several sessions run over the same
\* posts file.
C35_AtMostOnce ==
  \A k \in MPosts : handled[k] <= 1

\* C36: a post is marked posted only when it was delivered: a pass of a loop
\* in which post_to_twitter or post_to_instagram failed leaves the post
\* unposted in the list the loop will save.
C36_PostedOnlyIfDelivered ==
  [][(event'.op = "m_publish" /\ event'.out = "failed") =>
       \A m \in MSessions :
         \A i \in 1..Len(loop'[m].posts) :
           (MKey(loop'[m].posts[i]) = event'.id /\ loop'[m].posts[i].posted) =>
             (i <= Len(loop[m].posts) /\ loop[m].posts[i].posted)]_vars

\* A save of the posts file is under way: the file is open for writing.
Saving ==
  \E m \in MSessions : schedule_calls[m].pc = "write" \/ loop[m].pc = "write"

InFile(k) ==
  \E i \in 1..Len(posts_file.posts) : MKey(posts_file.posts[i]) = k

\* The list a save that has just opened the file is going to write.
BeingSaved(m) ==
  IF schedule_calls'[m].pc = "write" /\ schedule_calls[m].pc # "write"
  THEN schedule_calls'[m].posts
  ELSE loop'[m].posts

Opens(m) ==
  \/ schedule_calls'[m].pc = "write" /\ schedule_calls[m].pc # "write"
  \/ loop'[m].pc = "write" /\ loop[m].pc # "write"

\* C37: no update of the posts file is lost: whenever no save is under way,
\* every post whose schedule call returned True is in the file; and a save
\* that replaces a complete file writes every post that was marked posted in
\* it as posted again.
C37_NoLostUpdate ==
  /\ [](~Saving => \A k \in accepted : InFile(k))
  /\ [][\A m \in MSessions :
          (~Saving /\ Opens(m)) =>
            \A i \in 1..Len(posts_file.posts) :
              posts_file.posts[i].posted =>
                /\ i <= Len(BeingSaved(m))
                /\ BeingSaved(m)[i].posted]_vars

====
